---- MODULE Spec2Model ----
\* A model of smart_gaussian2d_fit.py: fit_gaussian2d and its helpers
\* (get_guess_values, img_moments, make_fit_param_dict, create_fit_struct).
\*
\* Conventions
\*  - Python indices are 0-based, sequences here are 1-based: the Jacobian
\*    columns the code calls 2 and 3 (sx, sy) are columns 3 and 4 here, and
\*    the row/column it calls 6 is 7 here.
\*  - Pixel values, fitted values and Jacobian entries are integers.  The
\*    quantities the code derives by division or square root are kept as
\*    integers in units of 1/Scale (guess values) or as "floats"
\*    [k |-> "fin" | "inf" | "nan", v |-> Int] in units of 1/Scale
\*    (statistics), so that numpy's non-finite results can be told apart.
\*  - scipy.optimize.least_squares, scipy.ndimage.zoom and scipy.stats are
\*    library code: the optimizer's return value is an input of the model, the
\*    resampler contributes the shape of its output.
EXTENDS Integers, Sequences, FiniteSets, TLC

VARIABLES
    pc,           \* position inside / after fit_gaussian2d
    heap,         \* array objects by reference: the caller's image lives here
    args,         \* arguments of the call: img (a reference), zoom, angle_offset, fix_lin_slope, fix_angle
    ds_shape,     \* img_downsampled.shape
    p_guess,      \* initial parameter vector
    param_keys,   \* list of free parameter names
    lock_params,  \* dict of fixed parameters
    binding,      \* how img_cost_func(x) binds gaussian_2d's parameters
    lsq_struct,   \* what least_squares returned (x, jac, cost), as returned
    popt_dict,    \* dict(zip(param_keys, popt)), mutated afterwards
    jac,          \* lsq_struct['jac'], mutated in place by the disambiguator
    branch,       \* which branch of the angle if/elif chain ran (0: none)
    dof,          \* n_data_points - n_fit_parameters
    caught,       \* exception handled inside fit_gaussian2d, or "none"
    cov,          \* covariance matrix handed to create_fit_struct
    fit_struct,   \* the returned dictionary
    exc,          \* exception that left fit_gaussian2d, or "none"
    img_at_call,  \* contents of the caller's image when fit_gaussian2d was called
    writes        \* number of writes the caller made to its image after the return (0 or 1)

vars == <<pc, heap, args, ds_shape, p_guess, param_keys, lock_params, binding,
          lsq_struct, popt_dict, jac, branch, dof, caught, cov, fit_struct, exc,
          img_at_call, writes>>

-----------------------------------------------------------------------------
\* Bounds of the model

Scale == 100        \* resolution of the derived quantities: one unit is 1/Scale
MaxSide == 4        \* images have at most MaxSide rows and MaxSide columns
MaxZoom == 2        \* zoom is drawn from 1..MaxZoom
MaxTurns == 3       \* sparse raw angles: angle_offset + 45*k + d, |k| <= MaxTurns
MaxAngle == 400     \* dense raw angles: -MaxAngle..MaxAngle
MaxOffset == 2      \* dense angle offsets: 15*k degrees, |k| <= MaxOffset
MaxJac == 2         \* the weight of the Jacobian's sx column is drawn from 1..MaxJac

None == [k |-> "None"]

-----------------------------------------------------------------------------
\* Arithmetic helpers

Abs(x) == IF x < 0 THEN -x ELSE x

RECURSIVE SumTo(_, _)
SumTo(f, n) == IF n = 0 THEN 0 ELSE f[n] + SumTo(f, n - 1)

\* the sequence <<f(1), ..., f(n)>>, built element by element
RECURSIVE MkSeq(_, _)
MkSeq(f(_), n) == IF n = 0 THEN <<>> ELSE Append(MkSeq(f, n - 1), f(n))

RECURSIVE IsqrtBetween(_, _, _)
IsqrtBetween(x, lo, hi) ==
    \* largest r in lo..hi with r*r <= x, given lo*lo <= x < (hi+1)*(hi+1)
    IF lo = hi THEN lo
    ELSE LET mid == (lo + hi + 1) \div 2
         IN  IF mid * mid <= x THEN IsqrtBetween(x, mid, hi)
                               ELSE IsqrtBetween(x, lo, mid - 1)

Isqrt(x) == IsqrtBetween(x, 0, 46340)

\* Python's round(): round half to even, here of the quotient a / b (b > 0)
RoundDiv(a, b) ==
    LET q == a \div b
        r == a % b
    IN  IF 2 * r < b THEN q
        ELSE IF 2 * r > b THEN q + 1
        ELSE IF q % 2 = 0 THEN q ELSE q + 1

\* "floats" of the statistics stage
Fin(x) == [k |-> "fin", v |-> x]
NaN == [k |-> "nan", v |-> 0]
Inf(s) == [k |-> "inf", v |-> s]
IsFin(a) == a.k = "fin"
Sgn(x) == IF x > 0 THEN 1 ELSE IF x < 0 THEN -1 ELSE 0

\* IEEE product of two floats whose finite values are in units of 1/Scale
FMul(a, b) ==
    IF a.k = "nan" \/ b.k = "nan" THEN NaN
    ELSE IF a.k = "inf" \/ b.k = "inf"
         THEN IF a.v = 0 \/ b.v = 0 THEN NaN ELSE Inf(Sgn(a.v) * Sgn(b.v))
         ELSE Fin((a.v * b.v) \div Scale)

\* float times a plain integer
FScaleInt(n, a) ==
    IF a.k = "nan" THEN NaN
    ELSE IF a.k = "inf" THEN (IF n = 0 THEN NaN ELSE Inf(Sgn(n) * a.v))
    ELSE Fin(n * a.v)

FAdd(a, b) ==
    IF a.k = "nan" \/ b.k = "nan" THEN NaN
    ELSE IF a.k = "inf" /\ b.k = "inf" THEN (IF a.v = b.v THEN a ELSE NaN)
    ELSE IF a.k = "inf" THEN a
    ELSE IF b.k = "inf" THEN b
    ELSE Fin(a.v + b.v)

FNeg(a) == IF a.k = "nan" THEN NaN ELSE [k |-> a.k, v |-> -a.v]

FSub(a, b) == FAdd(a, FNeg(b))

\* IEEE a <= b: false when either side is nan
FLeq(a, b) ==
    IF a.k = "nan" \/ b.k = "nan" THEN FALSE
    ELSE IF a.k = "inf" THEN (a.v < 0 \/ (b.k = "inf" /\ b.v > 0))
    ELSE IF b.k = "inf" THEN b.v > 0
    ELSE a.v <= b.v

\* np.sqrt: nan (with a warning) below zero
FSqrt(a) ==
    IF a.k = "nan" THEN NaN
    ELSE IF a.k = "inf" THEN (IF a.v > 0 THEN a ELSE NaN)
    ELSE IF a.v < 0 THEN NaN
    ELSE Fin(Isqrt(a.v * Scale))

-----------------------------------------------------------------------------
\* Images: sequences of rows of integer pixels

Rows(img) == Len(img)
Cols(img) == Len(img[1])
NPix(img) == Rows(img) * Cols(img)

\* np.sum(img * w) for a weight w(i, j) of the 0-based indices
WSum(img, w(_, _)) ==
    SumTo([i \in 1..Rows(img) |->
              SumTo([j \in 1..Cols(img) |-> img[i][j] * w(i - 1, j - 1)], Cols(img))],
          Rows(img))

ImgSum(img) == WSum(img, LAMBDA i, j : 1)

ImgMax(img) ==
    CHOOSE v \in {img[i][j] : i \in 1..Rows(img), j \in 1..Cols(img)} :
        \A i \in 1..Rows(img), j \in 1..Cols(img) : img[i][j] <= v

ImgMin(img) ==
    CHOOSE v \in {img[i][j] : i \in 1..Rows(img), j \in 1..Cols(img)} :
        \A i \in 1..Rows(img), j \in 1..Cols(img) : img[i][j] >= v

-----------------------------------------------------------------------------
\* img_moments: either the moments or the ValueError it raises

\* img_moments with the variance test written as varx < 0 or vary < 0
img_moments_strict(img) ==
    LET tot == ImgSum(img)
    IN  IF tot <= 0 THEN [raised |-> "ValueError"]
        ELSE
          LET x0 == (WSum(img, LAMBDA i, j : i) * Scale) \div tot
              y0 == (WSum(img, LAMBDA i, j : j) * Scale) \div tot
              varx == WSum(img, LAMBDA i, j : (i * Scale - x0) * (i * Scale - x0)) \div tot
              vary == WSum(img, LAMBDA i, j : (j * Scale - y0) * (j * Scale - y0)) \div tot
          IN  IF varx < 0 \/ vary < 0 THEN [raised |-> "ValueError"]
              ELSE [raised |-> "none", x0 |-> x0, y0 |-> y0,
                    sx |-> Isqrt(varx), sy |-> Isqrt(vary)]

img_moments(img) ==
    LET tot == ImgSum(img)
    IN  IF tot <= 0 THEN [raised |-> "ValueError"]
        ELSE
          LET x0 == (WSum(img, LAMBDA i, j : i) * Scale) \div tot
              y0 == (WSum(img, LAMBDA i, j : j) * Scale) \div tot
              \* variances in units of 1/Scale^2
              varx == WSum(img, LAMBDA i, j : (i * Scale - x0) * (i * Scale - x0)) \div tot
              vary == WSum(img, LAMBDA i, j : (j * Scale - y0) * (j * Scale - y0)) \div tot
          IN  IF varx <= 0 \/ vary <= 0 THEN [raised |-> "ValueError"]
              ELSE [raised |-> "none", x0 |-> x0, y0 |-> y0,
                    sx |-> Isqrt(varx), sy |-> Isqrt(vary)]

\* get_guess_values: <<x0, y0, sx, sy, A, B>> in units of 1/Scale
get_guess_values(img) ==
    LET x_range == Rows(img)
        y_range == Cols(img)
        A_guess == ImgMax(img) - ImgMin(img)
        B_guess == ImgMin(img)
        m == img_moments(img)
    IN  IF m.raised = "none"
        THEN <<m.x0, m.y0, m.sx, m.sy, A_guess * Scale, B_guess * Scale>>
        ELSE <<(x_range * Scale) \div 2, (y_range * Scale) \div 2,
               (x_range * Scale) \div 2, (y_range * Scale) \div 2,
               A_guess * Scale, B_guess * Scale>>

-----------------------------------------------------------------------------
\* Matrices: sequences of rows

NRows(M) == Len(M)
NCols(M) == Len(M[1])

\* np.matmul(jac.T, jac)
JtJ(J) ==
    MkSeq(LAMBDA a : MkSeq(LAMBDA b :
              SumTo([r \in 1..NRows(J) |-> J[r][a] * J[r][b]], NRows(J)),
          NCols(J)), NCols(J))

\* SwapCols done one column after the other without a temporary:
\* jac[:, 2] = jac[:, 3]; jac[:, 3] = jac[:, 2]
SwapColsAliased(J) ==
    MkSeq(LAMBDA r : MkSeq(LAMBDA c : IF c = 3 THEN J[r][4] ELSE J[r][c],
          NCols(J)), NRows(J))

\* jac[:, [2, 3]] = jac[:, [3, 2]] (0-based 2, 3 are columns 3, 4 here)
SwapCols(J) ==
    MkSeq(LAMBDA r : MkSeq(LAMBDA c :
              IF c = 3 THEN J[r][4] ELSE IF c = 4 THEN J[r][3] ELSE J[r][c],
          NCols(J)), NRows(J))

\* Fraction-free Gauss-Jordan elimination of [M | I].  M = JtJ is positive
\* semidefinite, so a zero pivot (a zero leading principal minor) means M is
\* singular, and without one the result is [det*I | adj(M)].
RECURSIVE GaussJordan(_, _, _, _)
GaussJordan(A, n, k, prev) ==
    IF k > n THEN [singular |-> FALSE, det |-> prev,
                   adj |-> MkSeq(LAMBDA i : MkSeq(LAMBDA j : A[i][n + j], n), n)]
    ELSE IF A[k][k] = 0 THEN [singular |-> TRUE, det |-> 0, adj |-> <<>>]
    ELSE GaussJordan(MkSeq(LAMBDA i :
                         IF i = k THEN A[k]
                         ELSE MkSeq(LAMBDA j :
                                  (A[k][k] * A[i][j] - A[i][k] * A[k][j]) \div prev,
                              2 * n),
                     n),
                     n, k + 1, A[k][k])

\* np.linalg.inv(M): LinAlgError on a singular matrix, else adj/det
Inv(M) ==
    LET n == Len(M)
    IN  GaussJordan(MkSeq(LAMBDA i : MkSeq(LAMBDA j :
                              IF j <= n THEN M[i][j] ELSE IF j - n = i THEN 1 ELSE 0,
                          2 * n), n),
                    n, 1, 1)

\* sigma_squared = 2 * cost / dof, a numpy float: division by zero gives
\* inf or nan with a warning, not an exception
SigmaSquaredTimes(cost, d, num, den) ==
    \* the float sigma_squared * (num / den), den > 0
    IF d = 0
    THEN (IF cost = 0 \/ num = 0 THEN NaN ELSE Inf(Sgn(num)))
    ELSE IF d > 0 THEN Fin((2 * cost * num * Scale) \div (d * den))
                  ELSE Fin((-(2 * cost * num * Scale)) \div ((-d) * den))

\* except LinAlgError: cov = 0 * jac, which has the shape of jac
ZeroTimes(J) == MkSeq(LAMBDA r : MkSeq(LAMBDA c : Fin(0), NCols(J)), NRows(J))

\* sigma_squared * inv, for inv = adj / det
ScaledInverse(inv, cost, d) ==
    MkSeq(LAMBDA a : MkSeq(LAMBDA b :
              SigmaSquaredTimes(cost, d, inv.adj[a][b], inv.det),
          Len(inv.adj)), Len(inv.adj))

\* lines 320-325: the covariance handed to create_fit_struct and the
\* exception the try block handled on the way
CovarianceOfInverse(inv, J, cost, d) ==
    IF inv.singular
    THEN [caught |-> "LinAlgError", cov |-> ZeroTimes(J)]
    ELSE [caught |-> "none", cov |-> ScaledInverse(inv, cost, d)]

Covariance(J, cost, d) == CovarianceOfInverse(Inv(JtJ(J)), J, cost, d)

-----------------------------------------------------------------------------
\* gaussian_2d(x, y, x0=0, y0=0, sx=1, sy=1, A=1, offset=0, angle=0, x_slope=0, y_slope=0)

GaussParams == <<"x0", "y0", "sx", "sy", "A", "offset", "angle", "x_slope", "y_slope">>

GaussDefaults == [x0 |-> 0, y0 |-> 0, sx |-> 1, sy |-> 1, A |-> 1, offset |-> 0,
                  angle |-> 0, x_slope |-> 0, y_slope |-> 0]

ParamNames == {GaussParams[i] : i \in 1..Len(GaussParams)}

\* Python's binding of the call gaussian_2d(cx, cy, *x, **kwargs) with len(x) = nargs:
\* each parameter gets the i-th positional value, a keyword value or its default;
\* a parameter given both positionally and by keyword is a TypeError.
BindCall(nargs, kwargs) ==
    LET positional == {GaussParams[i] : i \in 1..nargs}
    IN  IF nargs > Len(GaussParams) \/ positional \cap DOMAIN kwargs # {}
        THEN [raised |-> "TypeError", bound |-> <<>>]
        ELSE [raised |-> "none",
              bound |-> [p \in ParamNames |->
                  IF p \in positional
                  THEN [from |-> "x", v |-> CHOOSE i \in 1..nargs : GaussParams[i] = p]
                  ELSE IF p \in DOMAIN kwargs
                       THEN [from |-> "lock", v |-> kwargs[p]]
                       ELSE [from |-> "default", v |-> GaussDefaults[p]]]]

-----------------------------------------------------------------------------
\* Inputs

\* image shapes: r x r and r x (r+1), so that rows and columns can differ
Shapes == {s \in (1..MaxSide) \X (1..MaxSide) : s[2] \in {s[1], s[1] + 1}}

Patterns == {"zero", "peak", "ring"}

\* "zero": no intensity at all; "peak": a bump around row 2, column 2;
\* "ring": a background-subtracted image whose far corner is negative
Pixel(pat, s, i, j) ==
    CASE pat = "zero" -> 0
      [] pat = "peak" -> LET v == 3 - Abs(i - 2) - Abs(j - 2) IN IF v > 0 THEN v ELSE 0
      [] pat = "ring" -> IF i = 1 /\ j = 1 THEN 3
                         ELSE IF i = s[1] /\ j = s[2] THEN -1 ELSE 0

MakeImage(pat, s) == [i \in 1..s[1] |-> [j \in 1..s[2] |-> Pixel(pat, s, i, j)]]

Images == {MakeImage(pat, s) : pat \in Patterns, s \in Shapes}

\* scipy.ndimage.zoom(img, 1 / zoom).shape: each side is round(side / zoom)
ZoomShape(img, zoom) == <<RoundDiv(Rows(img), zoom), RoundDiv(Cols(img), zoom)>>

AngleOffsets == {0, 30}
DenseAngleOffsets == {15 * k : k \in (-MaxOffset)..MaxOffset}

\* raw fitted angles, in degrees
SparseAngles(off) == {off + 45 * k + d : k \in (-MaxTurns)..MaxTurns, d \in {-1, 0}}
DenseAngles == (-MaxAngle)..MaxAngle

\* raw fitted widths <<sx, sy>>: the optimizer may return either sign
SigmaPairs == {<<-2, 3>>, <<3, -1>>}

\* The Jacobian the optimizer returns for m residuals and n parameters: each
\* of the first 2n rows r depends on parameter ((r-1) mod n)+1 with weight 1
\* (a for sx), rows 1 and n+1 also on A, the other rows on nothing; dup makes
\* the sy column a copy of the sx column.
MakeJac(m, n, a, dup) ==
    LET base == [r \in 1..m |-> [c \in 1..n |->
                    IF r > 2 * n THEN 0
                    ELSE (IF c = ((r - 1) % n) + 1 THEN (IF c = 3 THEN a ELSE 1) ELSE 0)
                         + (IF (r - 1) % n = 0 /\ c = 5 THEN 1 ELSE 0)]]
    IN  IF dup THEN [r \in 1..m |-> [c \in 1..n |-> IF c = 4 THEN base[r][3] ELSE base[r][c]]]
        ELSE base

Jacobians(m, n) == {MakeJac(m, n, a, FALSE) : a \in 1..MaxJac} \cup {MakeJac(m, n, 1, TRUE)}

\* what least_squares may return for the given keys and m residuals
LsqResults(keys, angles, sigmas, jacs) ==
    {[x |-> [i \in 1..Len(keys) |->
                [x0 |-> 11, y0 |-> 12, sx |-> s[1], sy |-> s[2], A |-> 15, offset |-> 3,
                 angle |-> a, x_slope |-> 18, y_slope |-> 19][keys[i]]],
      jac |-> J, cost |-> 2] :
        s \in sigmas, a \in angles, J \in jacs}

-----------------------------------------------------------------------------
\* State machine

InitWith(images, zooms, offsets, fixes) ==
    /\ pc = "called"
    /\ \E img \in images :
         /\ heap = [caller_img |-> img]
         /\ img_at_call = img
         /\ \E z \in zooms, off \in offsets, fa \in fixes, fs \in BOOLEAN :
              /\ ZoomShape(img, z)[1] >= 1
              /\ ZoomShape(img, z)[2] >= 1
              /\ args = [img |-> "caller_img", zoom |-> z, angle_offset |-> off,
                         fix_lin_slope |-> fs, fix_angle |-> fa]
    /\ ds_shape = None
    /\ p_guess = None
    /\ param_keys = None
    /\ lock_params = None
    /\ binding = None
    /\ lsq_struct = None
    /\ popt_dict = None
    /\ jac = <<>>
    /\ branch = 0
    /\ dof = 0
    /\ caught = "none"
    /\ cov = <<>>
    /\ fit_struct = None
    /\ exc = "none"
    /\ writes = 0

Init == InitWith(Images, 1..MaxZoom, AngleOffsets, BOOLEAN)

\* lines 256-274: downsample, guess, parameter keys and locked parameters
Setup ==
    /\ pc = "called"
    /\ LET img == heap[args.img]
           base == get_guess_values(img)
           withAngle == IF args.fix_angle THEN base ELSE Append(base, 0)
           keysA == IF args.fix_angle
                    THEN <<"x0", "y0", "sx", "sy", "A", "offset">>
                    ELSE <<"x0", "y0", "sx", "sy", "A", "offset", "angle">>
           lockA == IF args.fix_angle THEN {"angle"} ELSE {}
           lockS == IF args.fix_lin_slope THEN {"x_slope", "y_slope"} ELSE {}
       IN  /\ ds_shape' = ZoomShape(img, args.zoom)
           /\ p_guess' = IF args.fix_lin_slope THEN withAngle ELSE withAngle \o <<0, 0>>
           /\ param_keys' = IF args.fix_lin_slope THEN keysA ELSE keysA \o <<"x_slope", "y_slope">>
           /\ lock_params' = [p \in lockA \cup lockS |-> 0]
    /\ pc' = "setup"
    /\ UNCHANGED <<heap, args, binding, lsq_struct, popt_dict, jac, branch, dof, caught, cov,
                   fit_struct, exc, img_at_call, writes>>

\* full variety of widths and Jacobians, raw angles around the bin edges
SparseLsqResults(keys, m, off) ==
    LsqResults(keys, SparseAngles(off), SigmaPairs, Jacobians(m, Len(keys)))

\* every raw angle in degrees, one pair of widths and one Jacobian
DenseLsqResults(keys, m) ==
    LsqResults(keys, DenseAngles, {<<-2, 3>>}, {MakeJac(m, Len(keys), 1, FALSE)})

\* dict(zip(param_keys, popt))
ZipKeys(keys, x) ==
    [key \in {keys[i] : i \in 1..Len(keys)} |-> x[CHOOSE i \in 1..Len(keys) : keys[i] = key]]

\* AbsWidths with the second line missing
AbsWidthsSxOnly(d) == [d EXCEPT !["sx"] = Abs(d["sx"])]

\* popt_dict['sx'] = np.abs(popt_dict['sx']); popt_dict['sy'] = np.abs(popt_dict['sy'])
AbsWidths(d) == [d EXCEPT !["sx"] = Abs(d["sx"]), !["sy"] = Abs(d["sy"])]

\* lines 276-292: the residual function is evaluated (first at p_guess), the
\* optimizer returns, the result is zipped with the keys and the widths are
\* made non-negative
Optimize(dense) ==
    /\ pc = "setup"
    /\ LET bind == BindCall(Len(p_guess), lock_params)
       IN  /\ binding' = bind
           /\ IF bind.raised # "none"
              THEN /\ pc' = "raised"
                   /\ exc' = bind.raised
                   /\ UNCHANGED <<lsq_struct, popt_dict, jac>>
              ELSE /\ \E res \in (IF dense
                                    THEN DenseLsqResults(param_keys, ds_shape[1] * ds_shape[2])
                                    ELSE SparseLsqResults(param_keys, ds_shape[1] * ds_shape[2],
                                                          args.angle_offset)) :
                        /\ lsq_struct' = res
                        /\ jac' = res.jac
                        /\ popt_dict' = AbsWidths(ZipKeys(param_keys, res.x))
                   /\ pc' = "fitted"
                   /\ exc' = exc
    /\ UNCHANGED <<heap, args, ds_shape, p_guess, param_keys, lock_params, branch, dof,
                   caught, cov, fit_struct, img_at_call, writes>>

-----------------------------------------------------------------------------
\* The angle disambiguator, lines 294-315

\* AngleBranch with the first bin closed at 45
AngleBranchClosedEdge(angle_diff) ==
    IF 0 <= angle_diff /\ angle_diff <= 45 THEN 1
    ELSE IF 45 < angle_diff /\ angle_diff < 135 THEN 2
    ELSE IF 135 <= angle_diff /\ angle_diff < 225 THEN 3
    ELSE IF 225 <= angle_diff /\ angle_diff < 315 THEN 4
    ELSE IF 315 <= angle_diff /\ angle_diff < 360 THEN 5
    ELSE 0

\* which branch of the if/elif chain takes angle_diff (0: none of them)
AngleBranch(angle_diff) ==
    IF 0 <= angle_diff /\ angle_diff < 45 THEN 1
    ELSE IF 45 <= angle_diff /\ angle_diff < 135 THEN 2
    ELSE IF 135 <= angle_diff /\ angle_diff < 225 THEN 3
    ELSE IF 225 <= angle_diff /\ angle_diff < 315 THEN 4
    ELSE IF 315 <= angle_diff /\ angle_diff < 360 THEN 5
    ELSE 0

\* CanonicalAngle with the fourth branch's 270 mistyped as 180
CanonicalAngleHalfTurn(angle, angle_offset, angle_diff, br) ==
    CASE br = 1 -> angle_offset + angle_diff
      [] br = 2 -> angle_offset + angle_diff - 90
      [] br = 3 -> angle_offset + angle_diff - 180
      [] br = 4 -> angle_offset + angle_diff - 180
      [] br = 5 -> angle_offset + angle_diff - 360
      [] OTHER -> angle

\* the angle the branch assigns
CanonicalAngle(angle, angle_offset, angle_diff, br) ==
    CASE br = 1 -> angle_offset + angle_diff
      [] br = 2 -> angle_offset + angle_diff - 90
      [] br = 3 -> angle_offset + angle_diff - 180
      [] br = 4 -> angle_offset + angle_diff - 270
      [] br = 5 -> angle_offset + angle_diff - 360
      [] OTHER -> angle

\* SwapsWidths with the exchange missing from the fourth branch
SwapsWidthsSecondOnly(br) == br = 2

\* the branches that exchange popt_dict['sx'] and popt_dict['sy']
SwapsWidths(br) == br \in {2, 4}

\* the branches that exchange the Jacobian's sx and sy columns
SwapsJacobian(br) == br \in {2, 4}

\* lines 295-312 as a function of popt_dict, jac and angle_offset
Disambiguated(d, J, angle_offset) ==
    LET angle == d["angle"]
        angle_diff == (angle - angle_offset) % 360
        br == AngleBranch(angle_diff)
    IN  [branch |-> br,
         popt_dict |-> [d EXCEPT !["angle"] = CanonicalAngle(angle, angle_offset, angle_diff, br),
                                 !["sx"] = IF SwapsWidths(br) THEN d["sy"] ELSE d["sx"],
                                 !["sy"] = IF SwapsWidths(br) THEN d["sx"] ELSE d["sy"]],
         jac |-> IF SwapsJacobian(br) THEN SwapCols(J) ELSE J]

Disambiguate ==
    /\ pc = "fitted"
    /\ IF args.fix_angle
       THEN /\ pc' = "disambiguated"
            /\ UNCHANGED <<popt_dict, jac, branch, exc>>
       ELSE LET r == Disambiguated(popt_dict, jac, args.angle_offset)
            IN  /\ popt_dict' = r.popt_dict
                /\ jac' = r.jac
                /\ branch' = r.branch
                \* jac[6, :] = jac[6, :] needs a seventh row, jac[:, 6] a seventh column
                /\ IF NRows(jac) < 7 \/ NCols(jac) < 7
                   THEN pc' = "raised" /\ exc' = "IndexError"
                   ELSE pc' = "disambiguated" /\ exc' = exc
    /\ UNCHANGED <<heap, args, ds_shape, p_guess, param_keys, lock_params, binding,
                   lsq_struct, dof, caught, cov, fit_struct, img_at_call, writes>>

-----------------------------------------------------------------------------
\* lines 317-325

DegreesOfFreedom(shape, d) == shape[1] * shape[2] - Cardinality(DOMAIN d)

ComputeCovariance ==
    /\ pc = "disambiguated"
    /\ dof' = DegreesOfFreedom(ds_shape, popt_dict)
    /\ \E c \in {Covariance(jac, lsq_struct.cost, dof')} :
         /\ cov' = c.cov
         /\ caught' = c.caught
    /\ pc' = "covariance"
    /\ UNCHANGED <<heap, args, ds_shape, p_guess, param_keys, lock_params, binding,
                   lsq_struct, popt_dict, jac, branch, fit_struct, exc, img_at_call, writes>>

-----------------------------------------------------------------------------
\* make_fit_param_dict and create_fit_struct

SomeDof(d) == [k |-> "int", v |-> d]

\* scipy.stats.norm.ppf((1 + conf_level) / 2) at the default conf_level erf(1/sqrt(2))
NormPpf == Fin(Scale)

\* scipy.stats.t.ppf((1 + conf_level) / 2, dof) at the default conf_level: nan
\* when dof <= 0, else 1 + 0.50/dof + 0.34/dof^2 to the model's resolution
TPpf(d) ==
    IF d <= 0 THEN NaN
    ELSE Fin(Scale + (50 * Scale) \div (100 * d) + (34 * Scale) \div (100 * d * d))

\* make_fit_param_dict with the upper bound a full range above the value
make_fit_param_dict_WideUpper(name, val, std, d) ==
    LET tcrit == IF d = None THEN NormPpf ELSE TPpf(d.v)
        half == FMul(tcrit, std)
    IN  [name |-> name, val |-> val, std |-> std,
         err_half_range |-> half,
         err_full_range |-> FScaleInt(2, half),
         val_lb |-> FSub(Fin(val * Scale), half),
         val_ub |-> FAdd(Fin(val * Scale), FScaleInt(2, half))]

make_fit_param_dict(name, val, std, d) ==
    LET tcrit == IF d = None THEN NormPpf ELSE TPpf(d.v)
        half == FMul(tcrit, std)
    IN  [name |-> name, val |-> val, std |-> std,
         err_half_range |-> half,
         err_full_range |-> FScaleInt(2, half),
         val_lb |-> FSub(Fin(val * Scale), half),
         val_ub |-> FAdd(Fin(val * Scale), half)]

Range(q) == {q[i] : i \in 1..Len(q)}
IndexOf(q, e) == CHOOSE i \in 1..Len(q) : q[i] = e

\* pcov[i, i] is read for every key: IndexError when pcov has fewer rows or columns
CovIndexError(keys, pcov) == Len(keys) > NRows(pcov) \/ Len(keys) > NCols(pcov)

\* create_fit_struct(img, popt_dict, pcov, conf_level, dof); img is a reference
create_fit_struct(h, img, keys, d, pcov, dofv) ==
    LET params == [key \in Range(keys) |->
                      make_fit_param_dict(key, d[key],
                                          FSqrt(pcov[IndexOf(keys, key)][IndexOf(keys, key)]),
                                          SomeDof(dofv))]
        rest == [param_keys |-> keys,
                 cov |-> pcov,
                 data_img |-> img,
                 model_img |-> [shape |-> <<Rows(h[img]), Cols(h[img])>>, kwargs |-> d],
                 NGauss_over_2pi |-> d["A"] * d["sx"] * d["sy"],
                 NSum |-> ImgSum(h[img]),
                 NSum_BGsubtract |-> WSum(h[img], LAMBDA i, j : 1)
                                     - NPix(h[img]) * d["offset"]]
    IN  params @@ rest

\* line 327 and the return
CreateFitStruct ==
    /\ pc = "covariance"
    /\ IF CovIndexError(param_keys, cov)
       THEN /\ pc' = "raised"
            /\ exc' = "IndexError"
            /\ UNCHANGED fit_struct
       ELSE /\ fit_struct' = create_fit_struct(heap, args.img, param_keys, popt_dict, cov, dof)
            /\ pc' = "returned"
            /\ exc' = exc
    /\ UNCHANGED <<heap, args, ds_shape, p_guess, param_keys, lock_params, binding,
                   lsq_struct, popt_dict, jac, branch, dof, caught, cov, img_at_call, writes>>

\* after the return the caller may overwrite a pixel of the first row of its
\* own image, once
CallerWrite ==
    /\ pc = "returned"
    /\ writes = 0
    /\ \E j \in 1..Cols(heap[args.img]) :
         heap' = [heap EXCEPT ![args.img][1][j] = @ + 1]
    /\ writes' = writes + 1
    /\ UNCHANGED <<pc, args, ds_shape, p_guess, param_keys, lock_params, binding,
                   lsq_struct, popt_dict, jac, branch, dof, caught, cov, fit_struct, exc, img_at_call>>

Next ==
    \/ Setup
    \/ Optimize(FALSE)
    \/ Disambiguate
    \/ ComputeCovariance
    \/ CreateFitStruct
    \/ CallerWrite

Spec == Init /\ [][Next]_vars

\* The same program on one image with every raw angle in -MaxAngle..MaxAngle
InitAngle ==
    InitWith({MakeImage("peak", <<3, 4>>)}, {1}, DenseAngleOffsets, {FALSE})

NextAngle ==
    \/ Setup
    \/ Optimize(TRUE)
    \/ Disambiguate
    \/ ComputeCovariance
    \/ CreateFitStruct
    \/ CallerWrite

SpecAngle == InitAngle /\ [][NextAngle]_vars

-----------------------------------------------------------------------------
\* Properties

Returned == pc = "returned"

\* the value the optimizer returned for a key
Raw(key) == lsq_struct.x[IndexOf(param_keys, key)]

\* popt_dict as it was before the disambiguator ran, with another raw angle
PoptWithAngle(t) == [AbsWidths(ZipKeys(param_keys, lsq_struct.x)) EXCEPT !["angle"] = t]

\* C1: with fix_angle=False, whatever the raw fitted angle and the angle
\* offset, the angle stored in the result lies in
\* [angle_offset - 45, angle_offset + 45).
C1_AngleInWindow ==
    (Returned /\ ~args.fix_angle) =>
        /\ args.angle_offset - 45 <= fit_struct["angle"].val
        /\ fit_struct["angle"].val < args.angle_offset + 45

\* a fit returned whose raw angle was negative, more than a turn away from the
\* window and not the angle that was stored
C1_Witness ==
    /\ Returned
    /\ ~args.fix_angle
    /\ Raw("angle") < -360
    /\ args.angle_offset # 0
    /\ fit_struct["angle"].val # Raw("angle")

\* C2: for the same angle_offset, the raw angles t and t+90 give the same
\* canonical angle and exactly one of the two runs swaps sx and sy, so the two
\* results have sx and sy exchanged; t and t+180 give the same canonical
\* angle, the same swap decision and the same widths.
C2_QuarterTurn ==
    (pc \in {"disambiguated", "covariance", "returned"} /\ ~args.fix_angle) =>
        LET t == Raw("angle")
            q == Disambiguated(PoptWithAngle(t + 90), lsq_struct.jac, args.angle_offset)
            h == Disambiguated(PoptWithAngle(t + 180), lsq_struct.jac, args.angle_offset)
            swapped == popt_dict["sx"] = Abs(Raw("sy")) /\ popt_dict["sy"] = Abs(Raw("sx"))
            qSwapped == q.popt_dict["sx"] = Abs(Raw("sy")) /\ q.popt_dict["sy"] = Abs(Raw("sx"))
            hSwapped == h.popt_dict["sx"] = Abs(Raw("sy")) /\ h.popt_dict["sy"] = Abs(Raw("sx"))
        IN  /\ q.popt_dict["angle"] = popt_dict["angle"]
            /\ swapped # qSwapped
            /\ q.popt_dict["sx"] = popt_dict["sy"]
            /\ q.popt_dict["sy"] = popt_dict["sx"]
            /\ h.popt_dict["angle"] = popt_dict["angle"]
            /\ swapped = hSwapped
            /\ h.popt_dict["sx"] = popt_dict["sx"]
            /\ h.popt_dict["sy"] = popt_dict["sy"]

\* the disambiguator left the widths alone for a raw angle t outside the
\* window, so that it is the run on t+90 that swaps
C2_Witness ==
    /\ pc = "disambiguated"
    /\ ~args.fix_angle
    /\ branch = 3
    /\ popt_dict["sx"] = Abs(Raw("sx"))
    /\ popt_dict["sx"] # popt_dict["sy"]
    /\ popt_dict["angle"] # Raw("angle")

\* the widths stored now are the optimizer's widths exchanged (the raw widths
\* the model draws never have the same magnitude)
WidthsSwapped ==
    /\ popt_dict["sx"] = Abs(Raw("sy"))
    /\ popt_dict["sy"] = Abs(Raw("sx"))

\* the covariance the unswapped Jacobian of the optimizer would have given
PreSwapCov == Covariance(lsq_struct.jac, lsq_struct.cost, dof).cov

\* C3: whenever the disambiguator has swapped sx and sy, then at the moment
\* the covariance is derived the Jacobian is the optimizer's with columns sx
\* and sy exchanged (column i belongs to the quantity stored under the i-th
\* key), and the covariance diagonal entries of sx and sy are the pre-swap
\* entries of sy and sx.
C3_JacobianFollowsSwap ==
    (pc = "covariance" /\ ~args.fix_angle /\ WidthsSwapped) =>
        /\ \A r \in 1..NRows(jac), c \in 1..NCols(jac) :
             jac[r][c] = lsq_struct.jac[r][IF c = 3 THEN 4 ELSE IF c = 4 THEN 3 ELSE c]
        /\ \E pre \in {PreSwapCov} :
             /\ cov[3][3] = pre[4][4]
             /\ cov[4][4] = pre[3][3]

\* the covariance was derived after a swap, with finite, positive and
\* different variances for sx and sy
C3_Witness ==
    /\ pc = "covariance"
    /\ ~args.fix_angle
    /\ WidthsSwapped
    /\ caught = "none"
    /\ IsFin(cov[3][3]) /\ IsFin(cov[4][4])
    /\ cov[3][3].v > 0
    /\ cov[3][3] # cov[4][4]

\* the image is degenerate in exact arithmetic: no positive total intensity,
\* or an intensity-weighted variance that is not positive (the variance has
\* the sign of sum(img * (index*tot - first moment)^2) when tot > 0)
Degenerate(img) ==
    LET tot == ImgSum(img)
        mx == WSum(img, LAMBDA i, j : i)
        my == WSum(img, LAMBDA i, j : j)
    IN  \/ tot <= 0
        \/ WSum(img, LAMBDA i, j : (i * tot - mx) * (i * tot - mx)) <= 0
        \/ WSum(img, LAMBDA i, j : (j * tot - my) * (j * tot - my)) <= 0

\* C5: get_guess_values never lets the degenerate-image failure out: when the
\* total intensity is <= 0 or a variance is <= 0 it returns x0 = rows/2,
\* y0 = columns/2, sx = rows/2, sy = columns/2, otherwise the moment-based
\* centroid and spread; A = max - min and offset = min in both cases.
C5_GuessFallback ==
    (pc = "setup") =>
        LET img == img_at_call
            tot == ImgSum(img)
            cx == (WSum(img, LAMBDA i, j : i) * Scale) \div tot
            cy == (WSum(img, LAMBDA i, j : j) * Scale) \div tot
        IN  /\ exc = "none"
            /\ p_guess[5] = (ImgMax(img) - ImgMin(img)) * Scale
            /\ p_guess[6] = ImgMin(img) * Scale
            /\ IF Degenerate(img)
               THEN /\ p_guess[1] = (Rows(img) * Scale) \div 2
                    /\ p_guess[2] = (Cols(img) * Scale) \div 2
                    /\ p_guess[3] = (Rows(img) * Scale) \div 2
                    /\ p_guess[4] = (Cols(img) * Scale) \div 2
               ELSE /\ p_guess[1] = cx
                    /\ p_guess[2] = cy
                    /\ p_guess[3] > 0
                    /\ p_guess[3] = Isqrt(WSum(img, LAMBDA i, j :
                                        (i * Scale - cx) * (i * Scale - cx)) \div tot)
                    /\ p_guess[4] > 0
                    /\ p_guess[4] = Isqrt(WSum(img, LAMBDA i, j :
                                        (j * Scale - cy) * (j * Scale - cy)) \div tot)

\* the guess was made for an image with positive total intensity whose
\* variance is not positive, and whose sides differ
C5_Witness ==
    /\ pc = "setup"
    /\ ImgSum(img_at_call) > 0
    /\ Degenerate(img_at_call)
    /\ Rows(img_at_call) > 1
    /\ Rows(img_at_call) # Cols(img_at_call)
    /\ p_guess[3] # p_guess[4]

\* C4 (as claimed): the keys are the six base keys, then angle unless
\* fix_angle, then x_slope, y_slope unless fix_lin_slope, and the residual
\* function binds the i-th entry of the parameter vector to the parameter
\* named by the i-th key and every fixed parameter to 0.
C4_ResidualBinding ==
    (pc \notin {"called", "setup"}) =>
        /\ param_keys = <<"x0", "y0", "sx", "sy", "A", "offset">>
                        \o (IF args.fix_angle THEN <<>> ELSE <<"angle">>)
                        \o (IF args.fix_lin_slope THEN <<>> ELSE <<"x_slope", "y_slope">>)
        /\ binding.raised = "none"
        /\ \A i \in 1..Len(param_keys) :
             binding.bound[param_keys[i]] = [from |-> "x", v |-> i]
        /\ \A p \in ParamNames \ Range(param_keys) :
             binding.bound[p] = [from |-> "lock", v |-> 0]

\* C6 (as claimed): when inverting JtJ fails as singular the fit does not
\* abort, and every parameter record of the result has the fitted value,
\* std = 0 and a zero-width confidence interval.
C6_SingularRecovery ==
    (caught = "LinAlgError") =>
        /\ pc # "raised"
        /\ Returned =>
             \A key \in Range(param_keys) :
                 /\ fit_struct[key].val = popt_dict[key]
                 /\ fit_struct[key].std = Fin(0)
                 /\ fit_struct[key].err_full_range = Fin(0)
                 /\ fit_struct[key].val_lb = Fin(popt_dict[key] * Scale)
                 /\ fit_struct[key].val_ub = Fin(popt_dict[key] * Scale)

\* C7 (as claimed): NSum_BGsubtract is sum(image) - offset_fit, that is NSum
\* minus the fitted offset, whatever the number of pixels.
C7_BackgroundSubtractedSum ==
    Returned =>
        /\ fit_struct.NSum = ImgSum(img_at_call)
        /\ fit_struct.NSum_BGsubtract = ImgSum(img_at_call) - fit_struct["offset"].val

\* C8 (as claimed): in every completed fit the 'cov' entry is a square
\* n_params x n_params matrix, on the normal and on the singular path.
C8_CovSquare ==
    Returned =>
        /\ NRows(fit_struct.cov) = Len(fit_struct.param_keys)
        /\ NCols(fit_struct.cov) = Len(fit_struct.param_keys)

\* C9 (as claimed): the result's data_img is a copy the result owns: what the
\* caller does to its image after the return does not change it, and the fit
\* does not change the caller's image.
C9_DataImgOwned ==
    /\ (pc # "returned") => heap[args.img] = img_at_call
    /\ Returned => heap[fit_struct.data_img] = img_at_call

\* C10: in every returned result sx and sy are non-negative, each the
\* absolute value of one of the two widths the optimizer returned.
C10_WidthsNonNegative ==
    Returned =>
        /\ fit_struct["sx"].val >= 0
        /\ fit_struct["sy"].val >= 0
        /\ \/ /\ fit_struct["sx"].val = Abs(Raw("sx"))
              /\ fit_struct["sy"].val = Abs(Raw("sy"))
           \/ /\ fit_struct["sx"].val = Abs(Raw("sy"))
              /\ fit_struct["sy"].val = Abs(Raw("sx"))

\* a fit returned after a swap although the optimizer's sy was negative
C10_Witness ==
    /\ Returned
    /\ ~args.fix_angle
    /\ Raw("sy") < 0
    /\ WidthsSwapped

\* the raw angle's distance from angle_offset lies in one of the two bins
\* whose branches exchange, and the disambiguator ran
InSwapBin ==
    /\ ~args.fix_angle
    /\ LET angle_diff == (Raw("angle") - args.angle_offset) % 360
       IN  \/ 45 <= angle_diff /\ angle_diff < 135
           \/ 225 <= angle_diff /\ angle_diff < 315

\* C11: with angle_diff = (angle - angle_offset) mod 360, the disambiguator
\* exchanges sx and sy and the Jacobian's columns 2 and 3 (counted from 0)
\* exactly when angle_diff is in [45, 135) or [225, 315); in the other three
\* bins, and always when fix_angle is set, sx, sy and the Jacobian are what
\* they were before; in every case the other Jacobian columns and the
\* parameters other than sx, sy and angle are what they were before.
C11_SwapBins ==
    pc \in {"disambiguated", "covariance", "returned"} =>
        LET from(c) == IF InSwapBin
                       THEN (IF c = 3 THEN 4 ELSE IF c = 4 THEN 3 ELSE c)
                       ELSE c
        IN  /\ popt_dict["sx"] = Abs(Raw(IF InSwapBin THEN "sy" ELSE "sx"))
            /\ popt_dict["sy"] = Abs(Raw(IF InSwapBin THEN "sx" ELSE "sy"))
            /\ NRows(jac) = NRows(lsq_struct.jac)
            /\ NCols(jac) = NCols(lsq_struct.jac)
            /\ \A r \in 1..NRows(jac), c \in 1..NCols(jac) :
                 jac[r][c] = lsq_struct.jac[r][from(c)]
            /\ DOMAIN popt_dict = Range(param_keys)
            /\ \A key \in Range(param_keys) \ {"sx", "sy", "angle"} :
                 popt_dict[key] = Raw(key)

\* the disambiguator ran on a raw angle at the lower edge of the fourth bin
\* and exchanged the widths and two different Jacobian columns
C11_Witness ==
    /\ pc = "disambiguated"
    /\ ~args.fix_angle
    /\ (Raw("angle") - args.angle_offset) % 360 = 225
    /\ WidthsSwapped
    /\ jac # lsq_struct.jac

\* C12: the critical value that scales every parameter's standard error into
\* its half range is the Student's t quantile when the degrees of freedom are
\* usable, and the normal quantile when they are not (dof <= 0, the
\* downsampled image having no more pixels than there are free parameters).
C12_CriticalValue ==
    Returned =>
        \A key \in Range(param_keys) :
            fit_struct[key].err_half_range
                = FMul(IF dof <= 0 THEN NormPpf ELSE TPpf(dof), fit_struct[key].std)

\* C13: every parameter record of a returned fit is symmetric about its
\* value: err_half_range is a critical value times std, err_full_range is
\* twice err_half_range, val_lb and val_ub are the value minus and plus
\* err_half_range, so val_ub - val_lb is err_full_range, and when std and the
\* critical value are not negative val_lb <= val <= val_ub.
C13_SymmetricInterval ==
    Returned =>
        \A key \in Range(param_keys) :
            LET p == fit_struct[key]
                val == Fin(p.val * Scale)
            IN  /\ \E tcrit \in {NormPpf, TPpf(dof)} :
                     /\ p.err_half_range = FMul(tcrit, p.std)
                     /\ (FLeq(Fin(0), p.std) /\ FLeq(Fin(0), tcrit)) =>
                            (FLeq(p.val_lb, val) /\ FLeq(val, p.val_ub))
                /\ p.err_full_range = FScaleInt(2, p.err_half_range)
                /\ p.val_lb = FSub(val, p.err_half_range)
                /\ p.val_ub = FAdd(val, p.err_half_range)
                /\ FSub(p.val_ub, p.val_lb) = p.err_full_range

\* a fit returned whose sx record has a finite, positive half range, so that
\* its bounds lie strictly on either side of the value
C13_Witness ==
    /\ Returned
    /\ dof > 0
    /\ IsFin(fit_struct["sx"].std)
    /\ fit_struct["sx"].std.v > 0
    /\ IsFin(fit_struct["sx"].err_half_range)
    /\ fit_struct["sx"].err_half_range.v > fit_struct["sx"].std.v
    /\ fit_struct["sx"].val_lb.v < fit_struct["sx"].val * Scale
    /\ fit_struct["sx"].val * Scale < fit_struct["sx"].val_ub.v

====
